---- MODULE Spec2Model ----
(***************************************************************************)
(* Model of packs-print: the print queue (src/src/queue.js) driven by its  *)
(* public API and by the executor wiring of src/src/index.js, and the      *)
(* printer's device state tracking (Printer, src/unnamed/part_001).        *)
(*                                                                         *)
(* JavaScript runs one callback at a time.  Every action below is one      *)
(* synchronous run of code: an API call up to the point where the call     *)
(* returns (the processing loop it may start runs synchronously up to its  *)
(* first await), or the continuation of a suspended processing loop        *)
(* (a microtask).                                                          *)
(***************************************************************************)
EXTENDS Integers, Sequences, FiniteSets, TLC

\* Bound on the number of accepted add() calls.
MaxJobs == 3

\* currentJob === null
NoJob == 0

\* job.template / job.copies === undefined
Undefined == "<undefined>"

\* A copies value: undefined, or the number num/den.
NoCopies == [def |-> FALSE, num |-> 0, den |-> 1]

Num(n) == [def |-> TRUE, num |-> n, den |-> 1]

Frac(n, d) == [def |-> TRUE, num |-> n, den |-> d]

\* The values of job.template the callers pass: undefined, '' and a name.
TemplateInputs == {Undefined, "", "label"}

\* The values of job.copies the callers pass: undefined, -1, 0, 2 and 1.5.
CopiesInputs == {NoCopies, Num(-1), Num(0), Num(2), Frac(3, 2)}

\* add(null) / add(undefined)
NullJob == [present |-> FALSE, template |-> Undefined, copies |-> NoCopies]

\* The arguments of add().
JobInputs ==
    {NullJob} \cup
    {[present |-> TRUE, template |-> t, copies |-> c] :
        t \in TemplateInputs, c \in CopiesInputs}

\* The arguments of add() under the interleavings of all API calls: null, a
\* job without template, a job with template '', and a valid job.
ApiJobInputs ==
    {NullJob} \cup
    {[present |-> TRUE, template |-> t, copies |-> Num(2)] : t \in TemplateInputs}

\* A timestamp field that is not set.
NoTime == -1

\* Bound on the clock.
MaxClock == 2

\* Bound on the number of jobs where the environment varies as well (the
\* device, the clock).
AppJobs == 2

\* The job mqtt.handleMessage builds from a message: the template is present
\* and copies is an integer.
MqttJob == [present |-> TRUE, template |-> "label", copies |-> Num(2)]

\* No argument (calls other than add).
NoArg == NullJob

\* The colors of the LED: red, green and blue, each 0 to 255.
Off == <<0, 0, 0>>
Colors == {<<255, 0, 0>>, <<0, 0, 255>>, <<255, 255, 0>>}

\* this.brightness, in hundredths: config.brightness || 0.5
brightness == 50

\* this.maxReconnectAttempts
maxReconnectAttempts == 10

\* messageData.copies, a string that is not a number
Text == [def |-> TRUE, num |-> 0, den |-> 0]

\* The copies field of a message.
MessageCopies == {NoCopies, Num(0), Num(-1), Num(2), Frac(3, 2), Text}

\* The payloads of the messages: text that is not JSON, the JSON null, and
\* JSON objects with or without template and copies, and one other field.
Messages ==
    [kind : {"invalid", "null", "object"}, template : TemplateInputs,
     copies : MessageCopies]

\* No message has been handled; no 'printJob' event.
NoMessage == [kind |-> "none", template |-> Undefined, copies |-> NoCopies]
NoPrintJob == [present |-> FALSE, template |-> Undefined, copies |-> NoCopies, data |-> {}]

\* Bound on the number of polls in flight at once.
MaxPolls == 2

\* this.lastStatus = null
NoStatus == [ssid |-> "<none>", wifi |-> 0, status |-> "<none>"]

\* No checkStatus() has completed yet.
NoPoll == [status |-> NoStatus, emitted |-> FALSE]

\* ssid: null
NoSsid == "<null>"

\* The number a division by zero or a failed parse yields (NaN).
NaN == -1

\* No 'Signal level=... dBm' and no 'Link Quality=../..' in the output.
NoDbm == 0
NoQuality == <<>>

VARIABLES
    queue,        \* this.queue: the backlog, a sequence of job ids
    processing,   \* this.processing
    currentJob,   \* this.currentJob (a job id, or NoJob)
    stats,        \* this.stats: totalJobs, completedJobs, failedJobs
    jobs,         \* the job records created by add(), indexed by job id
    loops,        \* the processQueue() invocations that have not returned
    pending,      \* print requests the executor has not yet reported on
    drainWait,    \* a drain() promise waits for 'queueEmpty'
    emitted,      \* the events emitted by the last action, in order
    startOrder,   \* history: job ids in the order of their jobStarted events
    finalOrder,   \* history: job ids in the order of jobCompleted / jobFailed
    requestOrder, \* history: job ids in the order of their printRequest events
    paused,       \* history: pause() was called with a job in flight and a
                  \* non-empty backlog, and resume() was not called since
    pausedJob,    \* history: the job in flight when pause() took effect, until
                  \* the next completeCurrentJob / failCurrentJob call
    call,         \* the last call: operation and argument
    ret,          \* what the last call returned: ok (or thrown), value
    reportFor     \* history: the job whose print request the report of the
                  \* last action answers (NoJob: the action is no such report)

qvars ==
    <<queue, processing, currentJob, stats, jobs, loops, pending, drainWait,
      emitted, startOrder, finalOrder, requestOrder, paused, pausedJob,
      call, ret, reportFor>>

VARIABLES
    deviceAvailable, \* this.deviceAvailable
    lastStatus,      \* this.lastStatus (a raw status code, or NullStatus)
    isPrinting,      \* this.isPrinting
    ppc,             \* where the printer's asynchronous operation stands
    accessOk,        \* the outcome of the fs.access check in flight
    ioctlLoaded,     \* the module-level ioctl binding is not null
    devAccessible,   \* environment: the device file can be accessed and opened
    hwStatus,        \* environment: the status byte the hardware reports
    pEmitted,        \* the statusChanged events of the last printer action
    pcall,           \* the last printer operation
    pret             \* what it returned: boolean result and status code

pvars ==
    <<deviceAvailable, lastStatus, isPrinting, ppc, accessOk, ioctlLoaded,
      devAccessible, hwStatus, pEmitted, pcall, pret>>

VARIABLES
    listener,      \* what the printRequest listener does when it is called
    connected,     \* mqtt.connected
    published,     \* history: the outcome messages handed to the transport
    now,           \* the clock read by new Date()
    outward,       \* the last status record built by the statusUpdate handler
    print,         \* the printer.print(job) invocation in flight
    templateCache, \* this.templateCache holds the compiled template
    writes         \* history: the job of every write to the device, in order

appvars ==
    <<listener, connected, published, now, outward, print, templateCache, writes>>

VARIABLES
    retryTimers    \* the retries scheduled by setTimeout and not yet fired

tvars == <<retryTimers>>

VARIABLES
    monLast,       \* the monitor's this.lastStatus: the status last emitted
    monPolls,      \* the checkStatus() calls in flight, each with its readings
    monPoll,       \* history: the last checkStatus() to complete
    monRunning,    \* the monitor's this.running
    wifiOut        \* environment: what iwconfig prints at present

mvars == <<monLast, monPolls, monPoll, monRunning, wifiOut>>

VARIABLES
    isShuttingDown,     \* app.isShuttingDown
    shutdownPc,         \* where shutdown() stands
    shutdownLog,        \* history: the steps shutdown() has taken, in order
    inFlightAtShutdown  \* history: the job in flight when shutdown() began

svars == <<isShuttingDown, shutdownPc, shutdownLog, inFlightAtShutdown>>

VARIABLES
    payload,       \* the last message handed to handleMessage
    printJob,      \* the job of the 'printJob' event it emitted, if any
    errorRecord    \* it published an error record

cvars == <<payload, printJob, errorRecord>>

VARIABLES
    reconnectAttempts, \* this.reconnectAttempts
    clientEnded,       \* this.client.end() has been called
    mqttEvent,         \* the last event of the mqtt client
    mqttEmitted        \* what its handler emitted

kvars == <<reconnectAttempts, clientEnded, mqttEvent, mqttEmitted>>

VARIABLES
    ledAvailable,  \* the LED controller's this.available
    currentColor,  \* this.currentColor, as scaled by the brightness
    pulseInterval, \* this.pulseInterval is set: the pulse's timer runs
    isOn,          \* the pulse's isOn
    pulseColor,    \* the color the pulse was started with
    fifoWritable,  \* environment: the LED daemon's FIFO can be written
    ledOp,         \* the last operation of the LED controller
    ledEmitted     \* what it emitted

lvars ==
    <<ledAvailable, currentColor, pulseInterval, isOn, pulseColor, fifoWritable,
      ledOp, ledEmitted>>

\* The state of the application's other components.
evars == <<tvars, mvars, svars, cvars, kvars, lvars>>

\* All of them but one component's.
besidesTimers == <<mvars, svars, cvars, kvars, lvars>>
besidesMonitor == <<tvars, svars, cvars, kvars, lvars>>
besidesShutdown == <<tvars, cvars, kvars, lvars>>
besidesTransport == <<tvars, mvars, svars, kvars, lvars>>
besidesClient == <<tvars, mvars, svars, cvars, lvars>>
besidesLed == <<tvars, mvars, svars, cvars, kvars>>

avars == <<appvars, evars>>

vars == <<qvars, pvars, avars>>

\* An error a caller other than print() passes to failCurrentJob.
OtherError == <<"error">>

\* The queue object and its listeners, as one record.
Self ==
    [queue |-> queue, processing |-> processing, currentJob |-> currentJob,
     stats |-> stats, jobs |-> jobs, loops |-> loops, pending |-> pending,
     drainWait |-> drainWait, emitted |-> <<>>,
     startOrder |-> startOrder, finalOrder |-> finalOrder,
     requestOrder |-> requestOrder, reportFor |-> NoJob,
     listener |-> listener, connected |-> connected, published |-> published,
     now |-> now, print |-> print, error |-> OtherError]

\* The action's effect on the queue object and on what its listeners reach.
Assign(s) ==
    /\ queue' = s.queue
    /\ processing' = s.processing
    /\ currentJob' = s.currentJob
    /\ stats' = s.stats
    /\ jobs' = s.jobs
    /\ loops' = s.loops
    /\ pending' = s.pending
    /\ drainWait' = s.drainWait
    /\ emitted' = s.emitted
    /\ startOrder' = s.startOrder
    /\ finalOrder' = s.finalOrder
    /\ requestOrder' = s.requestOrder
    /\ reportFor' = s.reportFor
    /\ published' = s.published
    /\ print' = s.print
    /\ UNCHANGED <<listener, connected, now, outward, templateCache, writes>>
    /\ UNCHANGED pvars

\* The effect of an action of the queue alone.
Commit(s) == Assign(s) /\ UNCHANGED evars

Ev(type, arg) == [type |-> type, arg |-> arg]

Range(seq) == {seq[i] : i \in 1..Len(seq)}

\* JavaScript truthiness of a template value.
Truthy(t) == t \notin {Undefined, ""}

\* onCompleted / onFailed of the loop suspended on job l.job: resolve on its id.
onFinalized(l, j) ==
    IF l.job = j /\ l.st = "waiting" THEN [l EXCEPT !.st = "ready"] ELSE l

\* error.message.includes(text): a message is the sequence of its parts.
includes(message, text) == \E i \in 1..Len(message) : message[i] = text

\* The error categories of publishFailure.
errorType(message) ==
    IF includes(message, "Failed to load template") /\ includes(message, "ENOENT")
    THEN "template_not_found"
    ELSE IF includes(message, "Printer not ready") THEN "printer_not_ready"
    ELSE IF includes(message, "Printer device not available") THEN "printer_offline"
    ELSE "unknown"

\* mqtt.publishSuccess(job): nothing is published while disconnected.
publishSuccess(s, j) ==
    IF ~s.connected THEN s
    ELSE [s EXCEPT !.published =
              Append(@, [topic |-> "success", job |-> j, error |-> <<>>,
                         errorType |-> ""])]

\* mqtt.publishFailure(job, error): nothing is published while disconnected.
publishFailure(s, j) ==
    IF ~s.connected THEN s
    ELSE [s EXCEPT !.published =
              Append(@, [topic |-> "failure", job |-> j, error |-> s.error,
                         errorType |-> errorType(s.error)])]

\* The printRequest listener of src/src/index.js: an async function, which
\* reports after print(job) has settled.
AsyncListener == "async"

\* Listeners that act before emit('printRequest') returns: one that throws,
\* one that calls completeCurrentJob(), one that calls failCurrentJob().
SyncListeners == {"throws", "completes", "fails"}

\* this.emit(type, arg): the listeners run synchronously.  The application
\* listens to jobCompleted and jobFailed before processJob does.
emit(s, ev) ==
    LET s1 == [s EXCEPT !.emitted = Append(@, ev)]
    IN  CASE ev.type = "jobStarted" ->
                [s1 EXCEPT !.startOrder = Append(@, ev.arg)]
          [] ev.type = "printRequest" ->
                [s1 EXCEPT !.pending =
                               IF s.listener = AsyncListener
                               THEN @ \cup {ev.arg} ELSE @,
                           !.requestOrder = Append(@, ev.arg)]
          [] ev.type \in {"jobCompleted", "jobFailed"} ->
                LET s2 == IF ev.type = "jobCompleted"
                          THEN publishSuccess(s1, ev.arg)
                          ELSE publishFailure(s1, ev.arg)
                IN  [s2 EXCEPT !.loops = {onFinalized(l, ev.arg) : l \in @},
                               !.finalOrder = Append(@, ev.arg)]
          [] ev.type = "queueEmpty" ->
                IF s1.drainWait
                THEN [s1 EXCEPT !.drainWait = FALSE,
                                !.emitted = Append(@, Ev("drainResolved", 0))]
                ELSE s1
          [] OTHER -> s1

\* markJobCompleted with a fault: currentJob is not cleared.
markJobCompletedKeepsCurrent(s, j) ==
    emit([s EXCEPT !.jobs[j].status = "completed",
                   !.jobs[j].completedAt = s.now,
                   !.stats.completedJobs = @ + 1],
         Ev("jobCompleted", j))

markJobCompleted(s, j) ==
    emit([s EXCEPT !.jobs[j].status = "completed",
                   !.jobs[j].completedAt = s.now,
                   !.stats.completedJobs = @ + 1,
                   !.currentJob = NoJob],
         Ev("jobCompleted", j))

\* markJobFailed with a fault: the jobFailed event is not emitted.
markJobFailedSilently(s, j) ==
    [s EXCEPT !.jobs[j].status = "failed",
              !.jobs[j].failedAt = s.now,
              !.jobs[j].error = s.error,
              !.stats.failedJobs = @ + 1,
              !.currentJob = NoJob]

\* markJobFailed with a fault: the failure is counted in completedJobs.
markJobFailedCountsCompleted(s, j) ==
    emit([s EXCEPT !.jobs[j].status = "failed",
                   !.jobs[j].failedAt = s.now,
              !.jobs[j].error = s.error,
                   !.stats.completedJobs = @ + 1,
                   !.currentJob = NoJob],
         Ev("jobFailed", j))

\* markJobFailed with a fault: the failed job is put back on the backlog.
markJobFailedRetries(s, j) ==
    emit([s EXCEPT !.jobs[j].status = "failed",
                   !.jobs[j].failedAt = s.now,
              !.jobs[j].error = s.error,
                   !.stats.failedJobs = @ + 1,
                   !.currentJob = NoJob,
                   !.queue = Append(@, j)],
         Ev("jobFailed", j))

\* markJobFailed with a fault: the time is written to completedAt.
markJobFailedStampsCompleted(s, j) ==
    emit([s EXCEPT !.jobs[j].status = "failed",
                   !.jobs[j].completedAt = s.now,
                   !.jobs[j].error = s.error,
                   !.stats.failedJobs = @ + 1,
                   !.currentJob = NoJob],
         Ev("jobFailed", j))

markJobFailed(s, j) ==
    emit([s EXCEPT !.jobs[j].status = "failed",
                   !.jobs[j].failedAt = s.now,
              !.jobs[j].error = s.error,
                   !.stats.failedJobs = @ + 1,
                   !.currentJob = NoJob],
         Ev("jobFailed", j))

\* completeCurrentJob with a fault: the counter is bumped outside the guard.
completeCurrentJobCounts(s) ==
    IF s.currentJob # NoJob
    THEN markJobCompleted(s, s.currentJob)
    ELSE [s EXCEPT !.stats.completedJobs = @ + 1]

completeCurrentJob(s) ==
    IF s.currentJob # NoJob THEN markJobCompleted(s, s.currentJob) ELSE s

failCurrentJob(s) ==
    IF s.currentJob # NoJob THEN markJobFailed(s, s.currentJob) ELSE s

\* The error a printRequest listener throws.
ThrownError == <<"listener threw">>

\* processJob with a fault: no try/catch around emit('printRequest'), the
\* error ends the processing loop.
processJobNoCatch(s, j) ==
    LET s1 == [s EXCEPT !.currentJob = j, !.jobs[j].status = "processing",
                        !.jobs[j].startedAt = s.now]
        s2 == emit(s1, Ev("jobStarted", j))
        s3 == emit(s2, Ev("printRequest", j))
    IN  IF s.listener = "throws" THEN s3
        ELSE [s3 EXCEPT !.loops = @ \cup {[job |-> j, st |-> "waiting"]}]

\* processJob up to its await: of the promise that the listeners of
\* jobCompleted / jobFailed resolve, or, when emit('printRequest') threw, of
\* markJobFailed.
processJob(s, j) ==
    LET s1 == [s EXCEPT !.currentJob = j, !.jobs[j].status = "processing",
                        !.jobs[j].startedAt = s.now]
        s2 == emit(s1, Ev("jobStarted", j))
        s3 == emit(s2, Ev("printRequest", j))
    IN  CASE s.listener = "throws" ->
                [markJobFailed([s3 EXCEPT !.error = ThrownError], j)
                     EXCEPT !.loops = @ \cup {[job |-> j, st |-> "ready"]}]
          [] s.listener = "completes" ->
                [completeCurrentJob(s3)
                     EXCEPT !.loops = @ \cup {[job |-> j, st |-> "waiting"]}]
          [] s.listener = "fails" ->
                [failCurrentJob(s3)
                     EXCEPT !.loops = @ \cup {[job |-> j, st |-> "waiting"]}]
          [] OTHER ->
                [s3 EXCEPT !.loops = @ \cup {[job |-> j, st |-> "waiting"]}]

\* whileLoop with a fault: it takes the newest entry (pop), not the oldest.
whileLoopLifo(s) ==
    IF Len(s.queue) > 0
    THEN processJob([s EXCEPT !.queue = SubSeq(@, 1, Len(@) - 1)],
                    s.queue[Len(s.queue)])
    ELSE emit([s EXCEPT !.processing = FALSE], Ev("queueEmpty", 0))

\* The while loop of processQueue, from its condition to the next await or
\* to the return.
whileLoop(s) ==
    IF Len(s.queue) > 0
    THEN processJob([s EXCEPT !.queue = Tail(@)], Head(s.queue))
    ELSE emit([s EXCEPT !.processing = FALSE], Ev("queueEmpty", 0))

processQueue(s) ==
    IF s.processing \/ Len(s.queue) = 0
    THEN s
    ELSE whileLoop([s EXCEPT !.processing = TRUE])

\* Job ids are unique; the model numbers them in the order add() creates them.
generateJobId(s) == Len(s.jobs) + 1

\* addThrows with a fault: only a missing template is refused, '' is accepted.
addThrowsUndefinedOnly(job) == ~job.present \/ job.template = Undefined

\* if (!job || !job.template) throw
addThrows(job) == ~job.present \/ ~Truthy(job.template)

add(s, job) ==
    LET id == generateJobId(s)
        enhancedJob ==
            [template |-> job.template, copies |-> job.copies, status |-> "queued",
             queuedAt |-> s.now, startedAt |-> NoTime, completedAt |-> NoTime,
             failedAt |-> NoTime, error |-> <<>>]
        s1 == [s EXCEPT !.jobs = Append(@, enhancedJob),
                        !.queue = Append(@, id),
                        !.stats.totalJobs = @ + 1]
        s2 == emit(s1, Ev("jobQueued", id))
    IN  IF ~s2.processing THEN processQueue(s2) ELSE s2

getQueueStatus(s) ==
    [length |-> Len(s.queue), processing |-> s.processing,
     currentJob |-> s.currentJob]

clearQueueRefuses(s) == s.processing

clearQueue(s) ==
    emit([s EXCEPT !.queue = <<>>], Ev("queueCleared", Len(s.queue)))

drainIdle(s) == Len(s.queue) = 0 /\ ~s.processing

\* drain with a fault: it resolves at once, whatever is in flight.
drainNoWait(s) == [s EXCEPT !.emitted = Append(@, Ev("drainResolved", 0))]

drain(s) ==
    IF drainIdle(s)
    THEN [s EXCEPT !.emitted = Append(@, Ev("drainResolved", 0))]
    ELSE [s EXCEPT !.drainWait = TRUE]

pause(s) ==
    IF s.processing
    THEN emit([s EXCEPT !.processing = FALSE], Ev("queuePaused", 0))
    ELSE s

resume(s) ==
    IF ~s.processing /\ Len(s.queue) > 0
    THEN emit(processQueue(s), Ev("queueResumed", 0))
    ELSE s

Called(op, arg) == call' = [op |-> op, arg |-> arg]

Returned(ok, val) == ret' = [ok |-> ok, val |-> val]

----
\* The printer.

\* PRINTER_STATUS
READY == 24

PAPER_OUT == 48

CALIBRATING == 80

LOADING == 176

ERROR == 8

\* A status byte that is none of PRINTER_STATUS.
OtherCode == 0

\* this.lastStatus === null
NullStatus == -1

\* The status bytes the hardware reports.
RawCodes == {READY, PAPER_OUT, CALIBRATING, LOADING, ERROR, OtherCode}

\* No printer.print() invocation is in flight.
IdlePrint ==
    [job |-> NoJob, pc |-> "idle", left |-> 0, avail |-> FALSE,
     status |-> NullStatus, rendered |-> FALSE, error |-> <<>>]

\* statusToString with a fault: the availability flag is not consulted.
statusToStringIgnoresAvailability(avail, status) ==
    CASE status = READY -> "ready"
      [] status = PAPER_OUT -> "paper out"
      [] status = CALIBRATING -> "calibrating"
      [] status = LOADING -> "loading"
      [] status = ERROR -> "error"
      [] OTHER -> "unknown"

\* statusToString with a fault: a code outside PRINTER_STATUS is an error.
statusToStringNoDefault(avail, status) ==
    IF ~avail THEN "device not available"
    ELSE CASE status = READY -> "ready"
           [] status = PAPER_OUT -> "paper out"
           [] status = CALIBRATING -> "calibrating"
           [] status = LOADING -> "loading"
           [] OTHER -> "error"

\* statusToString(status), read with this.deviceAvailable = avail.  The label
\* 'unknown (0x..)' stands for every code that is none of PRINTER_STATUS.
statusToString(avail, status) ==
    IF ~avail THEN "device not available"
    ELSE CASE status = READY -> "ready"
           [] status = PAPER_OUT -> "paper out"
           [] status = CALIBRATING -> "calibrating"
           [] status = LOADING -> "loading"
           [] status = ERROR -> "error"
           [] OTHER -> "unknown"

\* Monitor.printerStatusToString(status)
printerStatusToString(status) ==
    CASE status = READY -> "ready"
      [] status = PAPER_OUT -> "paper out"
      [] status = CALIBRATING -> "calibrating"
      [] status = LOADING -> "loading"
      [] status = ERROR -> "error"
      [] OTHER -> "unknown"

\* The printer object, as one record; status is the value getStatus returns.
Printer ==
    [deviceAvailable |-> deviceAvailable, lastStatus |-> lastStatus,
     isPrinting |-> isPrinting, emitted |-> <<>>, status |-> NullStatus]

PCommit(p) ==
    /\ deviceAvailable' = p.deviceAvailable
    /\ lastStatus' = p.lastStatus
    /\ isPrinting' = p.isPrinting
    /\ pEmitted' = p.emitted

\* this.emit('statusChanged', text)
statusChanged(p, text) == [p EXCEPT !.emitted = Append(@, text)]

\* this.lastStatus || PRINTER_STATUS.READY
cachedStatus(p) ==
    IF p.lastStatus = NullStatus \/ p.lastStatus = 0 THEN READY ELSE p.lastStatus

\* readDevice with a fault: every successful read is announced.
readDeviceAlwaysEmits(p) ==
    IF devAccessible
    THEN [statusChanged(p, statusToString(p.deviceAvailable, hwStatus))
              EXCEPT !.lastStatus = hwStatus, !.status = hwStatus]
    ELSE [statusChanged([p EXCEPT !.deviceAvailable = FALSE], "device disconnected")
              EXCEPT !.status = ERROR]

\* The device read of getStatus: open, ioctl(LPGETSTATUS), close.
readDevice(p) ==
    IF devAccessible
    THEN LET q == IF hwStatus # p.lastStatus
                  THEN [statusChanged(p, statusToString(p.deviceAvailable, hwStatus))
                            EXCEPT !.lastStatus = hwStatus]
                  ELSE p
         IN  [q EXCEPT !.status = hwStatus]
    ELSE [statusChanged([p EXCEPT !.deviceAvailable = FALSE], "device disconnected")
              EXCEPT !.status = ERROR]

\* getStatus with a fault: the device is read while a print is writing.
getStatusReadsWhilePrinting(p) ==
    IF ~p.deviceAvailable THEN [p EXCEPT !.status = ERROR]
    ELSE IF ~ioctlLoaded THEN [p EXCEPT !.status = READY]
    ELSE readDevice(p)

getStatus(p) ==
    IF ~p.deviceAvailable THEN [p EXCEPT !.status = ERROR]
    ELSE IF p.isPrinting THEN [p EXCEPT !.status = cachedStatus(p)]
    ELSE IF ~ioctlLoaded THEN [p EXCEPT !.status = READY]
    ELSE readDevice(p)

\* initialize(), after the access check has settled with outcome ok.
initialize(p, ok) ==
    IF ok
    THEN LET p1 == getStatus([p EXCEPT !.deviceAvailable = TRUE])
         IN  [p1 EXCEPT !.lastStatus = p1.status]
    ELSE statusChanged([p EXCEPT !.deviceAvailable = FALSE, !.lastStatus = ERROR],
                       "device not available")

\* retryConnection() reconnects: the access check succeeded and the device
\* is marked unavailable.
retryReconnects(p, ok) == ok /\ ~p.deviceAvailable

\* retryConnection with a fault: the recovery is announced only when the
\* status read anew differs from the cached one.
retryConnectionQuietWhenSame(p, ok) ==
    IF retryReconnects(p, ok)
    THEN LET p1 == getStatus([p EXCEPT !.deviceAvailable = TRUE])
             p2 == [p1 EXCEPT !.lastStatus = p1.status]
         IN  IF p1.status = p.lastStatus THEN p2 ELSE statusChanged(p2, "reconnected")
    ELSE p

\* retryConnection(), after the access check has settled with outcome ok.
retryConnection(p, ok) ==
    IF retryReconnects(p, ok)
    THEN LET p1 == getStatus([p EXCEPT !.deviceAvailable = TRUE])
         IN  statusChanged([p1 EXCEPT !.lastStatus = p1.status], "reconnected")
    ELSE p

\* The number of device writes of sendToPrinter(eplData, copies): copies
\* defaults to 1 when undefined, and the loop runs while copy <= copies.
copiesCount(c) ==
    IF ~c.def THEN 1 ELSE IF c.num <= 0 THEN 0 ELSE c.num \div c.den

\* printChecks with a fault: the status read is not compared with READY.
printChecksAnyStatus(pr, avail, p) ==
    IF ~avail
    THEN [pr EXCEPT !.pc = "rejected",
                    !.error = <<"Printer device not available">>]
    ELSE [pr EXCEPT !.pc = "template", !.avail = TRUE, !.status = p.status]

\* print(job) up to the template load: the availability check and the
\* check of the status read.  pr is the invocation, avail the flag
\* this.deviceAvailable before the read, p the printer after the read.
printChecks(pr, avail, p) ==
    IF ~avail
    THEN [pr EXCEPT !.pc = "rejected",
                    !.error = <<"Printer device not available">>]
    ELSE IF p.status # READY
    THEN [pr EXCEPT !.pc = "rejected", !.avail = TRUE, !.status = p.status,
                    !.error = <<"Printer not ready",
                                statusToString(p.deviceAvailable, p.status)>>]
    ELSE [pr EXCEPT !.pc = "template", !.avail = TRUE, !.status = p.status]

\* What loading and rendering the template comes to: the file is missing or
\* unreadable, the template throws or renders to nothing, or data results.
TemplateOutcomes == {"ENOENT", "EACCES", "throws", "empty", "data"}

\* The error print() throws for a template outcome other than data.
templateError(template, outcome) ==
    CASE outcome = "ENOENT" -> <<"Failed to load template", template, "ENOENT">>
      [] outcome = "EACCES" -> <<"Failed to load template", template, "EACCES">>
      [] outcome = "throws" -> <<"Parse error">>
      [] OTHER -> <<"Template rendered to empty data">>

PCalled(op) == pcall' = op

PReturned(ok, status) == pret' = [ok |-> ok, status |-> status]

----
\* The actions.

\* new Printer(), on a host where the ioctl module did or did not load and
\* the device is in any condition.
PrinterInit ==
    /\ deviceAvailable = FALSE
    /\ lastStatus = NullStatus
    /\ isPrinting = FALSE
    /\ ppc = "new"
    /\ accessOk = FALSE
    /\ ioctlLoaded \in BOOLEAN
    /\ devAccessible \in BOOLEAN
    /\ hwStatus \in RawCodes
    /\ pEmitted = <<>>
    /\ pcall = "new"
    /\ pret = [ok |-> TRUE, status |-> NullStatus]

\* new PrintQueue()
QueueInit ==
    /\ queue = <<>>
    /\ processing = FALSE
    /\ currentJob = NoJob
    /\ stats = [totalJobs |-> 0, completedJobs |-> 0, failedJobs |-> 0]
    /\ jobs = <<>>
    /\ loops = {}
    /\ pending = {}
    /\ drainWait = FALSE
    /\ emitted = <<>>
    /\ startOrder = <<>>
    /\ finalOrder = <<>>
    /\ requestOrder = <<>>
    /\ paused = FALSE
    /\ pausedJob = NoJob
    /\ call = [op |-> "new", arg |-> NoArg]
    /\ ret = [ok |-> TRUE, val |-> 0]
    /\ reportFor = NoJob

\* The application around them: the listener of src/src/index.js, the
\* transport connected, no print in flight.
AppInit ==
    /\ listener = AsyncListener
    /\ connected = TRUE
    /\ published = <<>>
    /\ now = 0
    /\ outward = [queueLength |-> 0, processing |-> FALSE]
    /\ print = IdlePrint
    /\ templateCache = FALSE
    /\ writes = <<>>
    /\ retryTimers = 0
    /\ monLast = NoStatus
    /\ monPolls = <<>>
    /\ monPoll = NoPoll
    /\ monRunning = FALSE
    /\ wifiOut = [essid |-> "net", dbm |-> -60, quality |-> NoQuality]
    /\ isShuttingDown = FALSE
    /\ shutdownPc = "idle"
    /\ shutdownLog = <<>>
    /\ inFlightAtShutdown = NoJob
    /\ payload = NoMessage
    /\ printJob = NoPrintJob
    /\ errorRecord = FALSE
    /\ reconnectAttempts = 0
    /\ clientEnded = FALSE
    /\ mqttEvent = "none"
    /\ mqttEmitted = <<>>
    /\ ledAvailable = FALSE
    /\ currentColor = Off
    /\ pulseInterval = FALSE
    /\ isOn = FALSE
    /\ pulseColor = Off
    /\ fifoWritable = TRUE
    /\ ledOp = "new"
    /\ ledEmitted = <<>>

\* A fresh queue and a fresh printer, the device in any condition.
AnyDeviceInit == QueueInit /\ PrinterInit /\ AppInit

\* The queue next to a printer whose device is present and ready.
Init == AnyDeviceInit /\ ioctlLoaded /\ devAccessible /\ hwStatus = READY

\* queue.add(job)
AddCall(job) ==
    /\ Len(jobs) < MaxJobs
    /\ Called("add", job)
    /\ IF addThrows(job)
       THEN /\ Commit(Self)
            /\ Returned(FALSE, 0)
       ELSE /\ Commit(add(Self, job))
            /\ Returned(TRUE, generateJobId(Self))
    /\ UNCHANGED <<paused, pausedJob>>

Add == \E job \in ApiJobInputs : AddCall(job)

\* queue.add(job) for every kind of argument
Intake == \E job \in JobInputs : AddCall(job)

\* The continuation of a processQueue() invocation whose awaited job was
\* finalized: processJob returns and the while loop goes on.
LoopStep ==
    \E l \in loops :
        /\ l.st = "ready"
        /\ Called("microtask", NoArg)
        /\ Commit(whileLoop([Self EXCEPT !.loops = @ \ {l}]))
        /\ Returned(TRUE, 0)
        /\ UNCHANGED <<paused, pausedJob>>

\* The printRequest listener of the application: print(job) has settled and
\* the listener reports the outcome to the queue.
ExecutorReport ==
    \E j \in pending, success \in BOOLEAN :
        /\ Called(IF success THEN "completeCurrentJob" ELSE "failCurrentJob", NoArg)
        /\ LET s == [Self EXCEPT !.pending = @ \ {j}, !.reportFor = j]
           IN  Commit(IF success THEN completeCurrentJob(s) ELSE failCurrentJob(s))
        /\ Returned(TRUE, 0)
        /\ pausedJob' = NoJob
        /\ UNCHANGED paused

\* queue.completeCurrentJob(result), by any caller
CompleteCurrentJob ==
    /\ Called("completeCurrentJob", NoArg)
    /\ Commit(completeCurrentJob(Self))
    /\ Returned(TRUE, 0)
    /\ pausedJob' = NoJob
    /\ UNCHANGED paused

\* queue.failCurrentJob(error), by any caller
FailCurrentJob ==
    /\ Called("failCurrentJob", NoArg)
    /\ Commit(failCurrentJob(Self))
    /\ Returned(TRUE, 0)
    /\ pausedJob' = NoJob
    /\ UNCHANGED paused

\* queue.clearQueue()
ClearQueue ==
    /\ Called("clearQueue", NoArg)
    /\ IF clearQueueRefuses(Self)
       THEN /\ Commit(Self)
            /\ Returned(FALSE, 0)
       ELSE /\ Commit(clearQueue(Self))
            /\ Returned(TRUE, 0)
    /\ UNCHANGED <<paused, pausedJob>>

\* queue.drain(), by a caller that is not already waiting for a drain
Drain ==
    /\ ~drainWait
    /\ Called("drain", NoArg)
    /\ Commit(drain(Self))
    /\ Returned(TRUE, 0)
    /\ UNCHANGED <<paused, pausedJob>>

\* queue.pause()
Pause ==
    /\ Called("pause", NoArg)
    /\ Commit(pause(Self))
    /\ Returned(TRUE, 0)
    /\ paused' = (paused \/ (processing /\ currentJob # NoJob /\ Len(queue) > 0))
    /\ pausedJob' = (IF processing /\ currentJob # NoJob THEN currentJob ELSE pausedJob)

\* queue.resume()
Resume ==
    /\ Called("resume", NoArg)
    /\ Commit(resume(Self))
    /\ Returned(TRUE, 0)
    /\ paused' = FALSE
    /\ UNCHANGED pausedJob

Next ==
    \/ Add
    \/ LoopStep
    \/ ExecutorReport
    \/ CompleteCurrentJob
    \/ FailCurrentJob
    \/ ClearQueue
    \/ Drain
    \/ Pause
    \/ Resume

\* Any interleaving of calls of the queue's public API.
Spec == Init /\ [][Next]_vars

\* printer.initialize() and printer.retryConnection() up to their await of
\* checkDeviceAccess(): the access check samples the device.
AccessCheck ==
    /\ \/ ppc = "new" /\ ppc' = "initAccess"
       \/ ppc = "idle" /\ ppc' = "retryAccess"
    /\ PCalled("checkDeviceAccess")
    /\ accessOk' = devAccessible
    /\ pEmitted' = <<>>
    /\ UNCHANGED <<deviceAvailable, lastStatus, isPrinting, ioctlLoaded,
                   devAccessible, hwStatus, pret, qvars, avars>>

\* printer.initialize(), from the settled access check to its return
Initialize ==
    /\ ppc = "initAccess"
    /\ ppc' = "idle"
    /\ PCalled("initialize")
    /\ LET p == initialize(Printer, accessOk)
       IN  PCommit(p) /\ PReturned(accessOk, p.status)
    /\ UNCHANGED <<accessOk, ioctlLoaded, devAccessible, hwStatus, qvars, avars>>

\* printer.retryConnection(), from the settled access check to its return
RetryConnection ==
    /\ ppc = "retryAccess"
    /\ ppc' = "idle"
    /\ PCalled("retryConnection")
    /\ LET p == retryConnection(Printer, accessOk)
       IN  PCommit(p) /\ PReturned(retryReconnects(Printer, accessOk), p.status)
    /\ UNCHANGED <<accessOk, ioctlLoaded, devAccessible, hwStatus, qvars, avars>>

\* printer.getStatus(), called by print() or testConnection()
GetStatus ==
    /\ ppc \in {"idle", "retryAccess"}
    /\ PCalled("getStatus")
    /\ LET p == getStatus(Printer)
       IN  PCommit(p) /\ PReturned(TRUE, p.status)
    /\ UNCHANGED <<ppc, accessOk, ioctlLoaded, devAccessible, hwStatus, qvars, avars>>

\* printer.print(job) reaches its device write: the device is available and
\* the status read returned READY (print, lines 765-788).
PrintBegin ==
    /\ ppc \in {"idle", "retryAccess"}
    /\ ~isPrinting
    /\ deviceAvailable
    /\ PCalled("print")
    /\ LET p == getStatus(Printer)
       IN  /\ PCommit([p EXCEPT !.isPrinting = p.status = READY])
           /\ PReturned(p.status = READY, p.status)
    /\ UNCHANGED <<ppc, accessOk, ioctlLoaded, devAccessible, hwStatus, qvars, avars>>

\* printer.print(job) leaves its device write (print, lines 802-811).
PrintEnd ==
    /\ isPrinting
    /\ isPrinting' = FALSE
    /\ PCalled("printEnd")
    /\ pEmitted' = <<>>
    /\ UNCHANGED <<deviceAvailable, lastStatus, ppc, accessOk, ioctlLoaded,
                   devAccessible, hwStatus, pret, qvars, avars>>

\* Environment: the device is unplugged or plugged, or the hardware status
\* changes.
DeviceChange ==
    /\ \/ devAccessible' = ~devAccessible /\ UNCHANGED hwStatus
       \/ hwStatus' \in RawCodes \ {hwStatus} /\ UNCHANGED devAccessible
    /\ PCalled("environment")
    /\ pEmitted' = <<>>
    /\ UNCHANGED <<deviceAvailable, lastStatus, isPrinting, ppc, accessOk,
                   ioctlLoaded, pret, qvars, avars>>

\* The printRequest listener calls printer.print(job): the availability
\* check and the status read.
PrintStart ==
    \E j \in pending :
        /\ print.pc = "idle"
        /\ PCalled("print")
        /\ LET p == IF deviceAvailable THEN getStatus(Printer) ELSE Printer
               pr == printChecks([IdlePrint EXCEPT !.job = j], deviceAvailable, p)
           IN  /\ PCommit(p)
               /\ print' = pr
               /\ PReturned(pr.pc = "template", p.status)
        /\ UNCHANGED <<ppc, accessOk, ioctlLoaded, devAccessible, hwStatus, qvars,
                       listener, connected, published, now, outward,
                       templateCache, writes, evars>>

\* print(job) loads the template, unless it is cached, renders it and, with
\* data in hand, sets the printing flag and calls sendToPrinter.
LoadTemplate ==
    \E o \in TemplateOutcomes :
        /\ print.pc = "template"
        /\ templateCache => o \notin {"ENOENT", "EACCES"}
        /\ PCalled("loadTemplate")
        /\ templateCache' = (templateCache \/ o \notin {"ENOENT", "EACCES"})
        /\ IF o = "data"
           THEN /\ print' = [print EXCEPT !.pc = "writing", !.rendered = TRUE,
                                          !.left = copiesCount(jobs[print.job].copies)]
                /\ isPrinting' = TRUE
           ELSE /\ print' = [print EXCEPT !.pc = "rejected",
                                  !.error = templateError(jobs[print.job].template, o)]
                /\ isPrinting' = FALSE
        /\ pEmitted' = <<>>
        /\ PReturned(o = "data", print.status)
        /\ UNCHANGED <<deviceAvailable, lastStatus, ppc, accessOk, ioctlLoaded,
                       devAccessible, hwStatus, qvars, listener, connected,
                       published, now, outward, writes, evars>>

\* sendToPrinter writes one copy to the device, or the write fails and
\* print() clears the printing flag and throws.
WriteCopy ==
    /\ print.pc = "writing"
    /\ print.left > 0
    /\ PCalled("sendToPrinter")
    /\ IF devAccessible
       THEN /\ writes' = Append(writes, print.job)
            /\ print' = [print EXCEPT !.left = @ - 1]
            /\ UNCHANGED isPrinting
       ELSE /\ print' = [print EXCEPT !.pc = "rejected",
                              !.error = <<"Failed to send to printer", "ENOENT">>]
            /\ isPrinting' = FALSE
            /\ UNCHANGED writes
    /\ pEmitted' = <<>>
    /\ PReturned(devAccessible, print.status)
    /\ UNCHANGED <<deviceAvailable, lastStatus, ppc, accessOk, ioctlLoaded,
                   devAccessible, hwStatus, qvars, listener, connected,
                   published, now, outward, templateCache, evars>>

\* sendToPrinter has written every copy: print() clears the printing flag
\* and returns.
PrintReturn ==
    /\ print.pc = "writing"
    /\ print.left = 0
    /\ PCalled("printReturn")
    /\ print' = [print EXCEPT !.pc = "resolved"]
    /\ isPrinting' = FALSE
    /\ pEmitted' = <<>>
    /\ PReturned(TRUE, print.status)
    /\ UNCHANGED <<deviceAvailable, lastStatus, ppc, accessOk, ioctlLoaded,
                   devAccessible, hwStatus, qvars, listener, connected,
                   published, now, outward, templateCache, writes, evars>>

\* The printRequest listener after print(job) has settled: it reports the
\* result, or the error print() threw, to the queue.
ReportOutcome ==
    /\ print.pc \in {"resolved", "rejected"}
    /\ Called(IF print.pc = "resolved" THEN "completeCurrentJob"
              ELSE "failCurrentJob", NoArg)
    /\ LET s == [Self EXCEPT !.pending = @ \ {print.job},
                             !.reportFor = print.job,
                             !.error = print.error,
                             !.print = IdlePrint]
       IN  Commit(IF print.pc = "resolved"
                  THEN completeCurrentJob(s) ELSE failCurrentJob(s))
    /\ Returned(TRUE, 0)
    /\ pausedJob' = NoJob
    /\ UNCHANGED paused

\* The mqtt 'printJob' listener: a job message arrives and is added.
PrintJobMessage ==
    /\ connected
    /\ AddCall(MqttJob)

\* The same, in the application, which connects the transport after the
\* printer is initialized.
MqttPrintJob ==
    /\ ppc \notin {"new", "initAccess"}
    /\ Len(jobs) < AppJobs
    /\ PrintJobMessage

\* Environment, as the application meets it: the device is unplugged or
\* plugged, the paper runs out or is refilled.
DeviceEvent ==
    /\ \/ devAccessible' = ~devAccessible /\ UNCHANGED hwStatus
       \/ hwStatus = READY /\ hwStatus' = PAPER_OUT /\ UNCHANGED devAccessible
       \/ hwStatus = PAPER_OUT /\ hwStatus' = READY /\ UNCHANGED devAccessible
    /\ PCalled("environment")
    /\ pEmitted' = <<>>
    /\ UNCHANGED <<deviceAvailable, lastStatus, isPrinting, ppc, accessOk,
                   ioctlLoaded, pret, qvars, avars>>

\* Environment: the transport connects or the connection is lost.
MqttChange ==
    /\ connected' = ~connected
    /\ UNCHANGED <<qvars, pvars, listener, published, now, outward, print,
                   templateCache, writes, evars>>

PrinterNext ==
    \/ AccessCheck
    \/ Initialize
    \/ RetryConnection
    \/ GetStatus
    \/ PrintBegin
    \/ PrintEnd
    \/ DeviceChange

\* The printer's operations against a device that comes and goes.
PrinterSpec == AnyDeviceInit /\ [][PrinterNext]_vars

AppNext ==
    \/ MqttPrintJob
    \/ LoopStep
    \/ PrintStart
    \/ LoadTemplate
    \/ WriteCopy
    \/ PrintReturn
    \/ ReportOutcome
    \/ AccessCheck
    \/ Initialize
    \/ RetryConnection
    \/ DeviceEvent

\* The application: its listeners wire the transport, the queue and the
\* printer together; the device and the connection come and go.
AppSpec == Init /\ [][AppNext]_vars

PrintingNext ==
    \/ MqttPrintJob
    \/ LoopStep
    \/ PrintStart
    \/ LoadTemplate
    \/ WriteCopy
    \/ PrintReturn
    \/ ReportOutcome
    \/ AccessCheck
    \/ Initialize
    \/ RetryConnection
    \/ GetStatus
    \/ DeviceEvent

\* The application, and a caller that reads the printer's status at any
\* time, also while a print is writing.
PrintingSpec == Init /\ [][PrintingNext]_vars

\* The monitor's 'statusUpdate' listener: it adds the queue status to the
\* monitor's status record.  The monitor emits from a callback of its own,
\* so no continuation of the processing loop is outstanding.
StatusUpdate ==
    /\ \A l \in loops : l.st # "ready"
    /\ Called("statusUpdate", NoArg)
    /\ LET queueStatus == getQueueStatus(Self)
       IN  outward' = [queueLength |-> queueStatus.length,
                       processing |-> queueStatus.processing]
    /\ emitted' = <<>>
    /\ reportFor' = NoJob
    /\ Returned(TRUE, 0)
    /\ UNCHANGED <<queue, processing, currentJob, stats, jobs, loops, pending,
                   drainWait, startOrder, finalOrder, requestOrder, paused,
                   pausedJob, pvars, listener, connected, published, now,
                   print, templateCache, writes, evars>>

StatusNext ==
    \/ Add
    \/ LoopStep
    \/ ExecutorReport
    \/ Pause
    \/ Resume
    \/ StatusUpdate

\* The queue under the application's wiring and pause() / resume(), with the
\* monitor reporting the status at any time.
StatusSpec == Init /\ [][StatusNext]_vars

\* Time passes: new Date() reads a later time.
Tick ==
    /\ now < MaxClock
    /\ now' = now + 1
    /\ UNCHANGED <<qvars, pvars, listener, connected, published, outward, print,
                   templateCache, writes, evars>>

\* queue.add(job), for the first few jobs
EarlyAdd == Len(jobs) < AppJobs /\ Add

ClockNext ==
    \/ EarlyAdd
    \/ LoopStep
    \/ ExecutorReport
    \/ Pause
    \/ Resume
    \/ Tick

\* The queue under the application's wiring and pause() / resume(), while
\* time passes.
ClockSpec == Init /\ [][ClockNext]_vars

\* queue.on('printRequest', ...): another listener takes the place of the
\* present one.
InstallListener(kinds) ==
    /\ listener' \in kinds \ {listener}
    /\ UNCHANGED <<qvars, pvars, connected, published, now, outward, print,
                   templateCache, writes, evars>>

\* The listener is the application's or one that throws.
ThrowingListener == InstallListener({AsyncListener, "throws"})

\* The listener is the application's or one that reports before returning.
ReportingListener == InstallListener({AsyncListener, "completes", "fails"})

ThrowNext ==
    \/ Add
    \/ LoopStep
    \/ ExecutorReport
    \/ ThrowingListener

\* The queue with a printRequest listener that may throw.
ThrowSpec ==
    /\ Init
    /\ [][ThrowNext]_vars
    /\ WF_vars(LoopStep)
    /\ WF_vars(ExecutorReport)

SyncReportNext ==
    \/ Add
    \/ LoopStep
    \/ ExecutorReport
    \/ ReportingListener

\* The queue with a printRequest listener that may report before it returns.
SyncReportSpec ==
    /\ Init
    /\ [][SyncReportNext]_vars
    /\ WF_vars(LoopStep)
    /\ WF_vars(ExecutorReport)

\* The executor reports once more, or late, on a print request it has
\* already answered.
RepeatedReport ==
    \E j \in Range(requestOrder) \ pending, success \in BOOLEAN :
        /\ Called(IF success THEN "completeCurrentJob" ELSE "failCurrentJob", NoArg)
        /\ LET s == [Self EXCEPT !.reportFor = j]
           IN  Commit(IF success THEN completeCurrentJob(s) ELSE failCurrentJob(s))
        /\ Returned(TRUE, 0)
        /\ pausedJob' = NoJob
        /\ UNCHANGED paused

RepeatNext ==
    \/ Add
    \/ LoopStep
    \/ ExecutorReport
    \/ RepeatedReport

\* The application's wiring with an executor that may report more than once
\* on a print request.
RepeatSpec == Init /\ [][RepeatNext]_vars

TransportNext ==
    \/ PrintJobMessage
    \/ LoopStep
    \/ ExecutorReport
    \/ MqttChange

\* The queue and the transport: jobs arrive while connected, the executor
\* answers every print request, the connection comes and goes.
TransportSpec ==
    /\ Init
    /\ [][TransportNext]_vars
    /\ WF_vars(LoopStep)
    /\ WF_vars(ExecutorReport)

HandshakeNext ==
    \/ Add
    \/ LoopStep
    \/ ExecutorReport

\* The application's wiring: jobs are added and the executor answers every
\* print request with one report.  The loop's continuation is a microtask and
\* always runs; the executor's print() settles.
HandshakeSpec ==
    /\ Init
    /\ [][HandshakeNext]_vars
    /\ WF_vars(LoopStep)
    /\ WF_vars(ExecutorReport)

IntakeNext ==
    \/ Intake
    \/ LoopStep
    \/ ExecutorReport

\* As HandshakeSpec, with every kind of add() argument.
IntakeSpec == Init /\ [][IntakeNext]_vars

----
\* The monitor (Monitor, src/src/monitor.js): every poll reads the wifi
\* state and the printer's device, and emits 'statusUpdate' when the status
\* has changed.

\* What iwconfig prints: the ESSID, the signal level in dBm and the link
\* quality, each present or not.
WifiOutputs ==
    [essid : {NoSsid, "net"}, dbm : {NoDbm, -60}, quality : {NoQuality, <<35, 70>>, <<0, 0>>}]

\* Number(x.toFixed(2)) of a / b, in hundredths
toFixed2(a, b) == IF b = 0 THEN NaN ELSE (200 * a + b) \div (2 * b)

\* Math.max(0, Math.min(1, x)), x in hundredths
clamp(x) == IF x < 0 THEN 0 ELSE IF x > 100 THEN 100 ELSE x

\* getWifiStatus(): ssid and wifi (in hundredths) from the output
getWifiStatus(out) ==
    IF out.essid = NoSsid
    THEN [ssid |-> NoSsid, wifi |-> 0]
    ELSE [ssid |-> out.essid,
          wifi |-> IF out.dbm # NoDbm THEN clamp(toFixed2(out.dbm + 90, 60))
                   ELSE IF out.quality # NoQuality
                        THEN toFixed2(out.quality[1], out.quality[2])
                   ELSE 0]

\* getPrinterStatus(): the device file accessible or not, the byte it reports
getPrinterStatus(accessible, code) ==
    IF ~accessible THEN "disconnected"
    ELSE IF ~ioctlLoaded THEN "ready"
    ELSE printerStatusToString(code)

\* a !== b
strictNotEqual(a, b) == a = NaN \/ b = NaN \/ a # b

\* hasStatusChanged(newStatus); the closing test of a signal change above
\* 0.05 is implied by the comparison of the wifi field.
hasStatusChanged(last, newStatus) ==
    \/ last = NoStatus
    \/ last.ssid # newStatus.ssid
    \/ strictNotEqual(last.wifi, newStatus.wifi)
    \/ last.status # newStatus.status

\* checkStatus() up to its await: the reads of the wifi state and of the
\* printer's device are under way.
checkStatus(polls) ==
    LET wifiStatus == getWifiStatus(wifiOut)
    IN  Append(polls, [ssid |-> wifiStatus.ssid, wifi |-> wifiStatus.wifi,
                       status |-> getPrinterStatus(devAccessible, hwStatus)])

\* monitor.start(): a running monitor is left alone; otherwise the first
\* poll is made and the interval timer is set.
MonitorStart ==
    /\ monRunning' = TRUE
    /\ IF monRunning
       THEN UNCHANGED monPolls
       ELSE Len(monPolls) < MaxPolls /\ monPolls' = checkStatus(monPolls)
    /\ UNCHANGED <<monLast, monPoll, wifiOut, qvars, pvars, appvars,
                   besidesMonitor>>

\* The interval timer fires: checkStatus() is called.
MonitorPoll ==
    /\ monRunning
    /\ Len(monPolls) < MaxPolls
    /\ monPolls' = checkStatus(monPolls)
    /\ UNCHANGED <<monLast, monPoll, monRunning, wifiOut, qvars, pvars, appvars,
                   besidesMonitor>>

\* monitor.stop(): the interval timer is cleared; polls in flight go on.
MonitorStop ==
    /\ monRunning
    /\ monRunning' = FALSE
    /\ UNCHANGED <<monLast, monPolls, monPoll, wifiOut, qvars, pvars, appvars,
                   besidesMonitor>>

\* Environment: the wifi link changes.
WifiChange ==
    /\ wifiOut' \in WifiOutputs \ {wifiOut}
    /\ UNCHANGED <<monLast, monPolls, monPoll, monRunning, qvars, pvars, appvars,
                   besidesMonitor>>

\* The reads of one checkStatus() in flight have settled: it compares its
\* status with the last one emitted and emits 'statusUpdate' on a change.
PollCompletes ==
    \E i \in 1..Len(monPolls) :
        LET status == monPolls[i]
            changed == hasStatusChanged(monLast, status)
        IN  /\ monPolls' = SubSeq(monPolls, 1, i - 1) \o SubSeq(monPolls, i + 1, Len(monPolls))
            /\ monLast' = IF changed THEN status ELSE monLast
            /\ monPoll' = [status |-> status, emitted |-> changed]
            /\ UNCHANGED <<monRunning, wifiOut, qvars, pvars, appvars,
                           besidesMonitor>>

MonitorNext ==
    \/ MonitorStart
    \/ MonitorPoll
    \/ MonitorStop
    \/ WifiChange
    \/ DeviceEvent
    \/ PollCompletes

\* The monitor polling, its polls overlapping and completing in any order.
MonitorSpec == Init /\ [][MonitorNext]_vars

----
\* The application's shutdown (PrinterApp.shutdown, src/src/index.js): it is
\* called by the handlers of SIGTERM, SIGINT, uncaught exceptions and
\* unhandled rejections.

\* The steps of shutdown(), in the order of its code.
ShutdownSteps == <<"monitorStop", "drain", "disconnect", "exit">>

\* shutdown() up to its await of queue.drain(): a call while shutting down
\* returns at once; otherwise the monitor is stopped and drain() is called.
Shutdown ==
    /\ shutdownPc # "exited"
    /\ Called("shutdown", NoArg)
    /\ Returned(TRUE, 0)
    /\ IF isShuttingDown
       THEN UNCHANGED <<queue, processing, currentJob, stats, jobs, loops, pending,
                        drainWait, emitted, startOrder, finalOrder, requestOrder,
                        reportFor, pvars, appvars, evars>>
       ELSE /\ isShuttingDown' = TRUE
            /\ monRunning' = FALSE
            /\ Assign(drain(Self))
            /\ shutdownPc' = "awaitDrain"
            /\ shutdownLog' = shutdownLog \o <<"monitorStop", "drain">>
            /\ inFlightAtShutdown' = currentJob
            /\ UNCHANGED <<monLast, monPolls, monPoll, wifiOut, besidesShutdown>>
    /\ UNCHANGED <<paused, pausedJob>>

\* The promise of drain() has resolved and its continuation, a microtask,
\* is due.
DisconnectDue == shutdownPc = "awaitDrain" /\ ~drainWait

\* shutdown() from the resolved drain() to its await of mqtt.disconnect()
ShutdownDisconnect ==
    /\ DisconnectDue
    /\ shutdownPc' = "awaitDisconnect"
    /\ shutdownLog' = Append(shutdownLog, "disconnect")
    /\ UNCHANGED <<isShuttingDown, inFlightAtShutdown, qvars, pvars, appvars,
                   mvars, besidesShutdown>>

\* mqtt.disconnect() has ended the client; shutdown() turns the LED off and
\* ends the process.
ShutdownExit ==
    /\ shutdownPc = "awaitDisconnect"
    /\ shutdownPc' = "exited"
    /\ connected' = FALSE
    /\ shutdownLog' = Append(shutdownLog, "exit")
    /\ UNCHANGED <<isShuttingDown, inFlightAtShutdown, qvars, pvars, listener,
                   published, now, outward, print, templateCache, writes, mvars,
                   besidesShutdown>>

\* A callback of the event loop other than a microtask: the process has not
\* ended and no microtask is due.
Task(A) == shutdownPc # "exited" /\ ~DisconnectDue /\ A

\* A print job arrives from the transport.
ArrivingJob == Task(Len(jobs) < AppJobs /\ PrintJobMessage)

\* print() has settled and the listener reports to the queue.
SettledPrint == Task(ExecutorReport)

\* The loop of the queue continues.
LoopContinues == shutdownPc # "exited" /\ LoopStep

\* A termination signal, or an uncaught error, calls shutdown().
Signal == Task(Shutdown)

\* app.initialize() reaches monitor.start().
StartMonitor == Task(MonitorStart)

ShutdownNext ==
    \/ ArrivingJob
    \/ LoopContinues
    \/ SettledPrint
    \/ StartMonitor
    \/ Signal
    \/ ShutdownDisconnect
    \/ ShutdownExit

\* The application receiving jobs and termination signals: every print
\* settles, and the continuations of the loop and of shutdown() run.
ShutdownSpec ==
    /\ Init
    /\ [][ShutdownNext]_vars
    /\ WF_vars(LoopContinues)
    /\ WF_vars(SettledPrint)
    /\ WF_vars(ShutdownDisconnect)
    /\ WF_vars(ShutdownExit)

----
\* The transport's intake (MqttClient.handleMessage, src/src/mqtt.js).

\* The fields of the message's JSON object.
Fields(msg) ==
    {"sku"} \cup (IF msg.template = Undefined THEN {} ELSE {"template"})
            \cup (IF msg.copies = NoCopies THEN {} ELSE {"copies"})

\* parseInt(c) is NaN
parseIntIsNaN(c) == ~c.def \/ c.den = 0

\* parseInt(c) of a number: the digits before the decimal point
parseInt(c) ==
    IF c.num >= 0 THEN c.num \div c.den ELSE 0 - ((0 - c.num) \div c.den)

\* parseInt(messageData.copies) || 1
parseCopies(c) ==
    IF parseIntIsNaN(c) \/ parseInt(c) = 0 THEN Num(1) ELSE Num(parseInt(c))

\* handleMessage(topic, message): the 'printJob' event it emits, if any, and
\* whether it ends in its catch block.
handleMessage(msg) ==
    CASE msg.kind # "object" ->
             [job |-> NoPrintJob, caught |-> TRUE]
      [] msg.kind = "object" /\ ~Truthy(msg.template) ->
             [job |-> NoPrintJob, caught |-> FALSE]
      [] OTHER ->
             [job |-> [present |-> TRUE, template |-> msg.template,
                       copies |-> parseCopies(msg.copies),
                       data |-> Fields(msg) \ {"template", "copies"}],
              caught |-> FALSE]

\* The transport delivers a message: handleMessage runs, and the listener
\* of 'printJob' adds the job to the queue.
HandleMessage ==
    \E msg \in Messages :
        LET r == handleMessage(msg)
            job == [present |-> TRUE, template |-> r.job.template,
                    copies |-> r.job.copies]
        IN  /\ Len(jobs) < AppJobs
            /\ payload' = msg
            /\ printJob' = r.job
            /\ errorRecord' = (r.caught /\ connected)
            /\ Called("handleMessage", NoArg)
            /\ IF r.job.present
               THEN /\ Assign(add(Self, job))
                    /\ Returned(TRUE, generateJobId(Self))
               ELSE /\ Assign(Self)
                    /\ Returned(FALSE, 0)
            /\ UNCHANGED <<paused, pausedJob, besidesTransport>>

MessageNext ==
    \/ HandleMessage
    \/ LoopStep
    \/ ExecutorReport

\* The application fed by the transport's messages.
MessageSpec == Init /\ [][MessageNext]_vars

----
\* The transport's connection (MqttClient.setupEventHandlers,
\* src/src/mqtt.js): the handlers of the mqtt client's events.

\* The client object, as one record.
Client ==
    [connected |-> connected, reconnectAttempts |-> reconnectAttempts,
     ended |-> clientEnded, emitted |-> <<>>]

\* client.on('connect') with a fault: the counter is not reset.
onConnectKeepsCount(c) ==
    [c EXCEPT !.connected = TRUE, !.emitted = <<"connected">>]

\* client.on('connect'): the subscription succeeds.
onConnect(c) ==
    [c EXCEPT !.connected = TRUE, !.reconnectAttempts = 0,
              !.emitted = <<"connected">>]

\* client.on('error')
onError(c) == [c EXCEPT !.connected = FALSE, !.emitted = <<"error">>]

\* client.on('offline')
onOffline(c) == [c EXCEPT !.connected = FALSE, !.emitted = <<"disconnected">>]

\* client.on('reconnect')
onReconnect(c) ==
    LET c1 == [c EXCEPT !.reconnectAttempts = @ + 1]
    IN  IF c1.reconnectAttempts >= maxReconnectAttempts
        THEN [c1 EXCEPT !.ended = TRUE, !.emitted = <<"error">>]
        ELSE c1

\* client.on('close')
onClose(c) == [c EXCEPT !.connected = FALSE, !.emitted = <<"disconnected">>]

\* The handler of a client event has run.
ClientEvent(name, c) ==
    /\ mqttEvent' = name
    /\ connected' = c.connected
    /\ reconnectAttempts' = c.reconnectAttempts
    /\ clientEnded' = c.ended
    /\ mqttEmitted' = c.emitted
    /\ UNCHANGED <<qvars, pvars, listener, published, now, outward, print,
                   templateCache, writes, besidesClient>>

\* The events of the mqtt client; an ended client neither reconnects nor
\* connects.
ClientConnect == ~clientEnded /\ ClientEvent("connect", onConnect(Client))

ClientError == ClientEvent("error", onError(Client))

ClientOffline == ClientEvent("offline", onOffline(Client))

ClientReconnect == ~clientEnded /\ ClientEvent("reconnect", onReconnect(Client))

ClientClose == ClientEvent("close", onClose(Client))

ClientNext ==
    \/ ClientConnect
    \/ ClientError
    \/ ClientOffline
    \/ ClientReconnect
    \/ ClientClose
    \/ PrintJobMessage
    \/ LoopStep
    \/ ExecutorReport

\* The transport's client over a connection that comes and goes, while jobs
\* arrive and their outcomes are published.
ClientSpec == Init /\ [][ClientNext]_vars

----
\* The LED controller (LedController, src/src/index.js).

\* The controller, as one record.
Led ==
    [available |-> ledAvailable, currentColor |-> currentColor,
     pulseInterval |-> pulseInterval, isOn |-> isOn, pulseColor |-> pulseColor,
     emitted |-> <<>>]

\* Math.floor(r * this.brightness), for each of the three
scaled(c) == [i \in 1..3 |-> (c[i] * brightness) \div 100]

\* stopPulse()
stopPulse(l) == [l EXCEPT !.pulseInterval = FALSE]

\* setColor(r, g, b, duration), the write to the FIFO succeeding or not
setColor(l, c, written) ==
    IF ~l.available THEN l
    ELSE LET l1 == [stopPulse(l) EXCEPT !.currentColor = scaled(c)]
         IN  IF written THEN l1 ELSE [l1 EXCEPT !.emitted = Append(@, "error")]

\* pulse(r, g, b, interval)
pulse(l, c) ==
    IF ~l.available THEN l
    ELSE [stopPulse(l) EXCEPT !.pulseInterval = TRUE, !.isOn = FALSE,
                              !.pulseColor = c]

\* The callback of the pulse's interval timer.
pulseTick(l, written) ==
    LET l1 == IF l.isOn THEN setColor(l, Off, written)
              ELSE setColor(l, l.pulseColor, written)
    IN  [l1 EXCEPT !.isOn = ~l.isOn]

LedCommit(op, l) ==
    /\ ledOp' = op
    /\ ledAvailable' = l.available
    /\ currentColor' = l.currentColor
    /\ pulseInterval' = l.pulseInterval
    /\ isOn' = l.isOn
    /\ pulseColor' = l.pulseColor
    /\ ledEmitted' = l.emitted
    /\ UNCHANGED <<fifoWritable, qvars, pvars, appvars, besidesLed>>

\* led.initialize(): the LED is available when the FIFO can be written.
LedInitialize ==
    /\ ledOp = "new"
    /\ LedCommit("initialize", [Led EXCEPT !.available = fifoWritable])

\* A caller sets a color.
SetColor == \E c \in Colors \cup {Off} : LedCommit("setColor", setColor(Led, c, fifoWritable))

\* A caller starts a pulse.
Pulse == \E c \in Colors : LedCommit("pulse", pulse(Led, c))

\* A caller stops the pulse.
StopPulse == LedCommit("stopPulse", stopPulse(Led))

\* The pulse's interval timer fires.
PulseTick ==
    /\ pulseInterval
    /\ LedCommit("tick", pulseTick(Led, fifoWritable))

\* Environment: the LED daemon goes away or comes back.
FifoChange ==
    /\ fifoWritable' = ~fifoWritable
    /\ ledOp' = "environment"
    /\ ledEmitted' = <<>>
    /\ UNCHANGED <<ledAvailable, currentColor, pulseInterval, isOn, pulseColor,
                   qvars, pvars, appvars, besidesLed>>

LedNext ==
    \/ LedInitialize
    \/ SetColor
    \/ Pulse
    \/ StopPulse
    \/ PulseTick
    \/ FifoChange

\* The LED controller and its callers; a timer that is set fires.
LedSpec ==
    /\ Init
    /\ [][LedNext]_vars
    /\ WF_vars(PulseTick)

----
\* The application's recovery of the printer: its listener of the printer's
\* 'statusChanged' schedules one retryConnection() five seconds after each
\* 'device not available' and each 'device disconnected'.

OutageNotices == {"device not available", "device disconnected"}

\* The timers the listener starts for the events of one printer operation.
scheduleRetries(timers, events) ==
    timers + Cardinality({i \in 1..Len(events) : events[i] \in OutageNotices})

\* app.initialize() calls printer.initialize(): up to the access check.
InitAccess == ppc = "new" /\ AccessCheck

\* printer.initialize() from the settled access check to its return, the
\* application listening.
ScheduledInitialize ==
    /\ ppc = "initAccess"
    /\ ppc' = "idle"
    /\ PCalled("initialize")
    /\ LET p == initialize(Printer, accessOk)
       IN  /\ PCommit(p)
           /\ PReturned(accessOk, p.status)
           /\ retryTimers' = scheduleRetries(retryTimers, p.emitted)
    /\ UNCHANGED <<accessOk, ioctlLoaded, devAccessible, hwStatus, qvars, appvars,
                   besidesTimers>>

\* A scheduled timer fires: retryConnection() up to its access check.
TimerFires ==
    /\ retryTimers > 0
    /\ ppc = "idle"
    /\ ppc' = "retryAccess"
    /\ retryTimers' = retryTimers - 1
    /\ PCalled("checkDeviceAccess")
    /\ accessOk' = devAccessible
    /\ pEmitted' = <<>>
    /\ UNCHANGED <<deviceAvailable, lastStatus, isPrinting, ioctlLoaded,
                   devAccessible, hwStatus, pret, qvars, appvars, besidesTimers>>

\* printer.retryConnection() from the settled access check to its return,
\* the application listening.
ScheduledRetry ==
    /\ ppc = "retryAccess"
    /\ ppc' = "idle"
    /\ PCalled("retryConnection")
    /\ LET p == retryConnection(Printer, accessOk)
       IN  /\ PCommit(p)
           /\ PReturned(retryReconnects(Printer, accessOk), p.status)
           /\ retryTimers' = scheduleRetries(retryTimers, p.emitted)
    /\ UNCHANGED <<accessOk, ioctlLoaded, devAccessible, hwStatus, qvars, appvars,
                   besidesTimers>>

\* print(job) up to its status read, the application listening: with the
\* device marked unavailable it throws before any read.
PrintProbe ==
    /\ ppc \in {"idle", "retryAccess"}
    /\ PCalled("print")
    /\ LET p == IF deviceAvailable THEN getStatus(Printer) ELSE Printer
       IN  /\ PCommit(p)
           /\ PReturned(deviceAvailable /\ p.status = READY, p.status)
           /\ retryTimers' = scheduleRetries(retryTimers, p.emitted)
    /\ UNCHANGED <<ppc, accessOk, ioctlLoaded, devAccessible, hwStatus, qvars,
                   appvars, besidesTimers>>

RecoveryNext ==
    \/ InitAccess
    \/ ScheduledInitialize
    \/ TimerFires
    \/ ScheduledRetry
    \/ PrintProbe
    \/ DeviceEvent

\* The printer under the application's recovery: initialization runs, every
\* scheduled timer fires and every retry runs to its return.
RecoverySpec ==
    /\ AnyDeviceInit
    /\ [][RecoveryNext]_vars
    /\ WF_vars(InitAccess)
    /\ WF_vars(ScheduledInitialize)
    /\ WF_vars(TimerFires)
    /\ WF_vars(ScheduledRetry)

----
\* The claims.

JobIds == 1..Len(jobs)

ProcessingJobs == {j \in JobIds : jobs[j].status = "processing"}

Finalized(j) == jobs[j].status \in {"completed", "failed"}

EmittedTypes == {emitted[i].type : i \in 1..Len(emitted)}

\* C1: under any interleaving of the API calls at most one job has status
\* 'processing', and that job is currentJob.
C1_SingleProcessing ==
    /\ Cardinality(ProcessingJobs) <= 1
    /\ \A j \in ProcessingJobs : currentJob = j

LegalStep(a, b) ==
    \/ a = b
    \/ a = "queued" /\ b = "processing"
    \/ a = "processing" /\ b \in {"completed", "failed"}

\* A job record created by this step is queued, or was queued and then
\* started by the same add() call (jobQueued, then jobStarted).
LegalNew(j) ==
    \/ jobs'[j].status = "queued"
    \/ /\ jobs'[j].status = "processing"
       /\ \E a, b \in 1..Len(emitted') :
            /\ a < b
            /\ emitted'[a] = Ev("jobQueued", j)
            /\ emitted'[b] = Ev("jobStarted", j)

\* C3: every job's status moves only queued -> processing -> completed or
\* failed: a new job starts as queued, no step skips processing, and a
\* finalized job keeps its status.
C3_StatusPath ==
    [][/\ Len(jobs') >= Len(jobs)
       /\ \A j \in JobIds : LegalStep(jobs[j].status, jobs'[j].status)
       /\ \A j \in (1..Len(jobs')) \ JobIds : LegalNew(j)]_vars

C3_Witness ==
    /\ \E j \in JobIds : jobs[j].status = "completed"
    /\ \E j \in JobIds : jobs[j].status = "failed"
    /\ call.op \in {"completeCurrentJob", "failCurrentJob"}
    /\ emitted = <<>>

C5_DrainResolvesWhenIdle ==
    "drainResolved" \in EmittedTypes => Len(queue) = 0 /\ ProcessingJobs = {}

\* C6: add() with a missing job or a missing or empty template fails and
\* leaves backlog, counters, currentJob, the processing flag and the job
\* records as they were, and emits nothing.
C6_InvalidAddRejected ==
    [][(/\ call'.op = "add"
        /\ \/ ~call'.arg.present
           \/ call'.arg.template = Undefined
           \/ call'.arg.template = "")
       => /\ ~ret'.ok
          /\ UNCHANGED <<queue, stats, currentJob, processing, jobs, loops, pending>>
          /\ emitted' = <<>>]_vars

C6_Witness ==
    /\ call.op = "add"
    /\ call.arg.present
    /\ call.arg.template = ""
    /\ ~ret.ok
    /\ Len(queue) > 0
    /\ currentJob # NoJob

IsPositiveInteger(c) == c.def /\ c.den = 1 /\ c.num >= 1

\* C7: every job in the backlog has a copies value that is an integer >= 1
\* (add() rejects other values and stores 1 when copies is absent).
C7_BacklogCopiesPositive ==
    \A i \in 1..Len(queue) : IsPositiveInteger(jobs[queue[i]].copies)

\* C8: after pause() was called with a job in flight and a non-empty backlog,
\* and until resume() is called, no step other than an add or clearQueue call
\* starts a job or takes an entry off the backlog.
C8_PausePreventsDequeue ==
    [][(paused /\ call'.op \notin {"add", "resume", "clearQueue"})
       => (startOrder' = startOrder /\ queue' = queue)]_vars

\* C9: the processing loop never has two active instances, and two print
\* requests are never outstanding (started and not finalized) at once.
C9_SingleLoop ==
    /\ Cardinality(loops) <= 1
    /\ Cardinality({j \in JobIds : j \in pending /\ ~Finalized(j)}) <= 1

\* C10: clearQueue() called while a job has status 'processing' returns
\* false, leaves the backlog unchanged and emits nothing.
C10_ClearRefusesWhileProcessing ==
    [][(call'.op = "clearQueue" /\ ProcessingJobs # {})
       => (~ret'.ok /\ queue' = queue /\ emitted' = <<>>)]_vars


NoDuplicates(seq) == \A a, b \in 1..Len(seq) : seq[a] = seq[b] => a = b

\* C11: completeCurrentJob / failCurrentJob called while no job has status
\* 'processing' change no job record, backlog, currentJob or counter and
\* emit nothing.
C11_ReportWithoutJobIsNoOp ==
    [][(call'.op \in {"completeCurrentJob", "failCurrentJob"} /\ ProcessingJobs = {})
       => (UNCHANGED <<jobs, queue, currentJob, stats>> /\ emitted' = <<>>)]_vars

C11_Witness ==
    /\ call.op = "failCurrentJob"
    /\ emitted = <<>>
    /\ ProcessingJobs = {}
    /\ Len(queue) > 0
    /\ stats.completedJobs = 1

\* C12: an accepted add() called while a job has status 'processing' only
\* appends: the new job is at the tail of the backlog with status 'queued',
\* totalJobs grows by one, currentJob and the other job records are unchanged
\* and no print request is emitted.
C12_AddOnlyAppends ==
    [][(call'.op = "add" /\ ret'.ok /\ ProcessingJobs # {})
       => /\ queue' = Append(queue, ret'.val)
          /\ jobs'[ret'.val].status = "queued"
          /\ stats'.totalJobs = stats.totalJobs + 1
          /\ currentJob' = currentJob
          /\ \A j \in JobIds : jobs'[j] = jobs[j]
          /\ requestOrder' = requestOrder]_vars

\* C13: each job's events come in the order jobStarted, printRequest, then one
\* finalization; a loop leaves its wait for job J only after an event with J's
\* id; and a job is started only after the previously started job was
\* finalized.
C13_EventOrder ==
    /\ requestOrder = startOrder
    /\ \A a \in 1..Len(emitted) :
           emitted[a].type = "printRequest"
           => a > 1 /\ emitted[a - 1] = Ev("jobStarted", emitted[a].arg)
    /\ NoDuplicates(finalOrder)
    /\ Range(finalOrder) \subseteq Range(startOrder)
    /\ \A l \in loops : l.st = "ready" => l.job \in Range(finalOrder)
    /\ \A k \in 2..Len(startOrder) : startOrder[k - 1] \in Range(finalOrder)

\* C14: queueEmpty is emitted only in a state where the backlog is empty and
\* no job has status 'processing'.
C14_QueueEmptyWhenIdle ==
    (\E i \in 1..Len(emitted) : emitted[i] = Ev("queueEmpty", 0))
    => (queue = <<>> /\ ~(\E j \in JobIds : jobs[j].status = "processing"))

\* C15: the counters agree with the job records: totalJobs is the number of
\* accepted jobs, completedJobs the number of completed jobs, failedJobs the
\* number of failed jobs, and completedJobs + failedJobs <= totalJobs.
C15_CountersAgree ==
    /\ stats.totalJobs = Len(jobs)
    /\ stats.completedJobs = Cardinality({j \in JobIds : jobs[j].status = "completed"})
    /\ stats.failedJobs = Cardinality({j \in JobIds : jobs[j].status = "failed"})
    /\ stats.completedJobs + stats.failedJobs <= stats.totalJobs

C15_Witness ==
    /\ stats.completedJobs = 1
    /\ stats.failedJobs = 1
    /\ stats.totalJobs = 3
    /\ ProcessingJobs # {}

\* C16: pause() leaves currentJob, the job records and the backlog unchanged
\* (it clears the processing flag and emits queuePaused, or does nothing when
\* the flag is clear), and the job that was in flight when pause() took effect
\* is the one finalized by the next completeCurrentJob / failCurrentJob call.
C16_PauseKeepsInFlightJob ==
    [][/\ call'.op = "pause"
          => /\ UNCHANGED <<currentJob, jobs, queue>>
             /\ processing => (~processing' /\ emitted' = <<Ev("queuePaused", 0)>>)
             /\ ~processing => (~processing' /\ emitted' = <<>>)
       /\ (call'.op \in {"completeCurrentJob", "failCurrentJob"} /\ pausedJob # NoJob)
          => jobs'[pausedJob].status \in {"completed", "failed"}]_vars

\* C17: a finalized job is never in the backlog again, and no job is the
\* subject of two printRequest events.
C17_NoRetry ==
    /\ \A i \in 1..Len(queue) : jobs[queue[i]].status = "queued"
    /\ NoDuplicates(requestOrder)

C17_Witness ==
    /\ \E j \in JobIds : jobs[j].status = "failed"
    /\ Len(requestOrder) >= 2
    /\ Len(queue) > 0

\* C18: the classified status is 'device not available' exactly when
\* deviceAvailable is false, whatever the raw status code, and a
\* 'device not available' notification is only emitted while the device is
\* marked unavailable.
C18_UnavailableIffClassified ==
    /\ \A c \in RawCodes \cup {NullStatus} :
           (statusToString(deviceAvailable, c) = "device not available")
               <=> ~deviceAvailable
    /\ \A i \in 1..Len(pEmitted) :
           pEmitted[i] = "device not available" => ~deviceAvailable

\* The device was read as ready and has since been marked unavailable.
C18_Witness ==
    /\ ~deviceAvailable
    /\ lastStatus = READY
    /\ pcall = "getStatus"
    /\ pEmitted = <<"device disconnected">>

\* A getStatus() call reads the raw code from the device.
ReadsDevice == deviceAvailable /\ ~isPrinting /\ ioctlLoaded

\* C19: a status read that obtains the raw code from a device that stays
\* available emits statusChanged, with the label of that code, exactly when
\* the code differs from the recorded one, and records it; reading a code
\* equal to the recorded one emits nothing, reading 0x30 after ready emits
\* 'paper out'; a read while the device is marked unavailable emits nothing
\* and changes nothing.
C19_StatusChangedOnDifference ==
    [][pcall' = "getStatus" =>
          /\ ~deviceAvailable =>
                 (pEmitted' = <<>> /\ UNCHANGED <<deviceAvailable, lastStatus>>)
          /\ (ReadsDevice /\ deviceAvailable') =>
                 /\ (pEmitted' # <<>>) <=> (hwStatus # lastStatus)
                 /\ hwStatus # lastStatus =>
                        pEmitted' = <<statusToString(TRUE, hwStatus)>>
                 /\ (hwStatus = PAPER_OUT /\ lastStatus = READY) =>
                        pEmitted' = <<"paper out">>
                 /\ lastStatus' = hwStatus
                 /\ pret'.status = hwStatus]_vars

\* Paper out has just been read after ready.
C19_Witness ==
    /\ pcall = "getStatus"
    /\ deviceAvailable
    /\ pEmitted = <<"paper out">>
    /\ lastStatus = PAPER_OUT

C21_NoWriteUnlessReady ==
    [][/\ writes' # writes =>
             /\ writes' = Append(writes, print.job)
             /\ print.avail /\ print.status = READY /\ print.rendered
       /\ (reportFor' # NoJob /\ print.pc = "rejected" /\ ~print.rendered) =>
             /\ jobs'[print.job].status = "failed"
             /\ print.job \notin Range(writes')]_vars

\* One job was printed, another failed on a status that was not READY and
\* nothing was written for it.
C21_Witness ==
    /\ \E j \in JobIds :
          /\ jobs[j].status = "failed"
          /\ includes(jobs[j].error, "Printer not ready")
          /\ j \notin Range(writes)
    /\ \E j \in JobIds : jobs[j].status = "completed" /\ j \in Range(writes)

\* The jobs started by this step.
Started == Range(startOrder') \ Range(startOrder)

\* C22: a report of a failed device write leaves the job failed, and when a
\* job starts after a failed write to a device that is inaccessible, the
\* device has been marked unavailable.
C22_WriteFailureReprobes ==
    [][/\ (reportFor' # NoJob /\ includes(print.error, "Failed to send to printer"))
             => jobs'[print.job].status = "failed"
       /\ (Started # {} /\ pcall = "sendToPrinter" /\ ~pret.ok /\ ~devAccessible)
             => ~deviceAvailable']_vars

\* The messages of a template lookup or render failure.
TemplateFailures ==
    {templateError("label", o) : o \in TemplateOutcomes \ {"data"}}

\* The message of a device failure: unavailable, not ready, write error.
DeviceFailure(message) ==
    \/ includes(message, "Printer device not available")
    \/ includes(message, "Printer not ready")
    \/ includes(message, "Failed to send to printer")

FailureRecords == {published[i] : i \in {k \in 1..Len(published) : published[k].topic = "failure"}}

\* C26: among the published failure records, no template failure has the
\* errorType of a device failure, and the failure 'Printer device not
\* available' is typed printer_offline.
C26_RenderErrorDistinct ==
    /\ \A a, b \in FailureRecords :
          (a.error \in TemplateFailures /\ DeviceFailure(b.error))
              => a.errorType # b.errorType
    /\ \A a \in FailureRecords :
          includes(a.error, "Printer device not available")
              => a.errorType = "printer_offline"

\* C30: every finalized job has exactly one published outcome message, a
\* success for a completed job and a failure for a failed one.
C30_OneOutcomeMessage ==
    \A j \in JobIds :
        Finalized(j) =>
            /\ Cardinality({i \in 1..Len(published) : published[i].job = j}) = 1
            /\ \A i \in 1..Len(published) :
                  published[i].job = j =>
                      published[i].topic =
                          (IF jobs[j].status = "completed" THEN "success" ELSE "failure")

\* The values of a status byte.
Bytes == 0..255

\* The classification the status bytes are to receive.
ExpectedLabel(b) ==
    IF b = 24 THEN "ready"
    ELSE IF b = 48 THEN "paper out"
    ELSE IF b = 80 THEN "calibrating"
    ELSE IF b = 176 THEN "loading"
    ELSE IF b = 8 THEN "error"
    ELSE "unknown"

\* C23: the printer and the monitor classify every status byte: 0x18 ready,
\* 0x30 paper out, 0x50 calibrating, 0xb0 loading, 0x08 error, every other
\* byte unknown; and a device read that meets or follows a byte outside the
\* table returns and records the byte read and announces a change with its
\* label.
C23_ClassificationTotal ==
    [][/\ \A b \in Bytes :
             /\ statusToString(TRUE, b) = ExpectedLabel(b)
             /\ printerStatusToString(b) = ExpectedLabel(b)
       /\ (/\ pcall' = "getStatus"
           /\ ReadsDevice /\ devAccessible
           /\ OtherCode \in {hwStatus, lastStatus}) =>
                /\ deviceAvailable'
                /\ pret'.status = hwStatus
                /\ lastStatus' = hwStatus
                /\ hwStatus # lastStatus => pEmitted' = <<ExpectedLabel(hwStatus)>>]_vars

\* A byte outside the table has just been read and announced as unknown.
C23_Witness ==
    /\ pcall = "getStatus"
    /\ deviceAvailable
    /\ lastStatus = OtherCode
    /\ pEmitted = <<"unknown">>

\* C24: the status record built by the statusUpdate handler has queueLength
\* equal to the backlog length and processing true exactly when a job has
\* status 'processing'.
C24_StatusRecord ==
    [][call'.op = "statusUpdate" =>
          /\ outward'.queueLength = Len(queue)
          /\ outward'.processing = (ProcessingJobs # {})]_vars

\* The timestamps a job record has for its status, in order.
Stamped(job) ==
    /\ job.queuedAt # NoTime
    /\ job.status = "queued" =>
          job.startedAt = NoTime /\ job.completedAt = NoTime /\ job.failedAt = NoTime
    /\ job.status = "processing" =>
          /\ job.queuedAt <= job.startedAt
          /\ job.completedAt = NoTime /\ job.failedAt = NoTime
    /\ job.status = "completed" =>
          /\ job.queuedAt <= job.startedAt /\ job.startedAt <= job.completedAt
          /\ job.failedAt = NoTime
    /\ job.status = "failed" =>
          /\ job.queuedAt <= job.startedAt /\ job.startedAt <= job.failedAt
          /\ job.completedAt = NoTime

\* A timestamp is written with the time of the step, and never again.
WrittenOnce(old, new) ==
    IF old = NoTime THEN new \in {NoTime, now} ELSE new = old

\* C25: a job has queuedAt from add(), startedAt from its dequeue and
\* exactly one of completedAt / failedAt from its finalization, each written
\* once with the time of that step, and queuedAt <= startedAt <=
\* completedAt or failedAt.
C25_Timestamps ==
    [][/\ \A j \in 1..Len(jobs') : Stamped(jobs'[j])
       /\ \A j \in (1..Len(jobs')) \ JobIds : jobs'[j].queuedAt = now
       /\ \A j \in JobIds :
             /\ WrittenOnce(jobs[j].queuedAt, jobs'[j].queuedAt)
             /\ WrittenOnce(jobs[j].startedAt, jobs'[j].startedAt)
             /\ WrittenOnce(jobs[j].completedAt, jobs'[j].completedAt)
             /\ WrittenOnce(jobs[j].failedAt, jobs'[j].failedAt)]_vars

\* A job was added, started later and failed later still; another was
\* completed.
C25_Witness ==
    /\ \E j \in JobIds :
          /\ jobs[j].status = "failed"
          /\ jobs[j].queuedAt < jobs[j].startedAt
          /\ jobs[j].startedAt < jobs[j].failedAt
    /\ \E j \in JobIds : jobs[j].status = "completed"

QueueEmptyEmitted == \E i \in 1..Len(emitted) : emitted[i] = Ev("queueEmpty", 0)

\* The processing loop has returned; it emits queueEmpty as it does.
LoopReturned == ~processing

\* This step starts job j and emits its print request to a listener that
\* throws.
ThrownAt(j) == listener = "throws" /\ j \in Started

\* C27: when the printRequest listener throws, the step leaves the job
\* failed, counted in failedJobs, announced by jobFailed and no longer
\* currentJob; after a job has failed so, the loop goes on to the next
\* backlog entry and eventually returns, emitting queueEmpty.
C27_ListenerThrowCaught ==
    /\ [][/\ \A j \in 1..Len(jobs') :
                ThrownAt(j) =>
                   /\ jobs'[j].status = "failed"
                   /\ jobs'[j].error = ThrownError
                   /\ stats'.failedJobs = stats.failedJobs + 1
                   /\ emitted'[Len(emitted')] = Ev("jobFailed", j)
                   /\ currentJob' = NoJob
          /\ (processing /\ ~processing') =>
                emitted'[Len(emitted')] = Ev("queueEmpty", 0)]_vars
    /\ \A j \in 1..MaxJobs :
          /\ (j \in JobIds /\ jobs[j].error = ThrownError) ~> LoopReturned
          /\ (Len(jobs) > j /\ jobs[j].error = ThrownError)
                 ~> (Len(startOrder) > j)

\* A job failed on the listener's throw, the next one was started and
\* completed, and the queue has run empty.
C27_Witness ==
    /\ QueueEmptyEmitted
    /\ \E j \in JobIds :
          /\ jobs[j].error = ThrownError
          /\ \E k \in JobIds : k > j /\ jobs[k].status = "completed"

\* C28: whether the listener reports after print() has settled or before
\* emit('printRequest') returns, after a job is finalized the loop goes on to
\* the next backlog entry and eventually returns, emitting queueEmpty.
C28_SyncReportNotLost ==
    \A j \in 1..MaxJobs :
        /\ (j \in JobIds /\ Finalized(j)) ~> LoopReturned
        /\ (Len(jobs) > j /\ Finalized(j)) ~> (Len(startOrder) > j)

\* C29: a report finalizes only the job whose print request it answers: in
\* a step that is a report for job j, no other job changes status.
C29_ReportFinalizesOwnJob ==
    [][reportFor' # NoJob =>
          \A k \in JobIds : jobs'[k].status # jobs[k].status => k = reportFor']_vars

----
\* C31: whenever retryConnection() returns true and emits 'reconnected',
\* deviceAvailable is true on return, also when the status read made inside
\* retryConnection fails.
C31_ReconnectedMeansAvailable ==
    [][(/\ pcall' = "retryConnection"
        /\ pret'.ok
        /\ "reconnected" \in Range(pEmitted')) => deviceAvailable']_vars

\* The printer has been marked unavailable: initialization has failed, or a
\* status read has.
MarkedUnavailable == ppc \notin {"new", "initAccess"} /\ ~deviceAvailable

\* C32: once the printer is marked unavailable, if the device file is
\* accessible from some moment on, the printer eventually becomes available
\* again, whether the device comes back before or after the scheduled retry.
C32_EventuallyAvailableAgain ==
    []((MarkedUnavailable /\ []devAccessible) => <>deviceAvailable)

\* The fields a statusUpdate is emitted for.
Significant(status) == <<status.ssid, status.wifi, status.status>>

\* C33: a completing poll emits statusUpdate exactly when it is the first to
\* complete or its ssid, wifi or printer status differs from the status
\* last emitted; so an emitted status differs from the one emitted before
\* it, in whatever order overlapping polls complete.
C33_EmitsOnChangeOnly ==
    [][Len(monPolls') < Len(monPolls) =>
          /\ monPoll'.emitted <=>
                 (monLast = NoStatus \/ Significant(monPoll'.status) # Significant(monLast))
          /\ monPoll'.emitted => monLast' = monPoll'.status
          /\ (monPoll'.emitted /\ monLast # NoStatus) =>
                 Significant(monLast') # Significant(monLast)]_vars

\* The steps taken so far are the first steps of shutdown(), each once.
StepsInOrder ==
    \E n \in 0..Len(ShutdownSteps) : shutdownLog = SubSeq(ShutdownSteps, 1, n)

\* C34: shutdown() runs at most once, a call while shutting down taking no
\* step; it stops the monitor, then drains the queue, and invokes the
\* MQTT disconnect only where the backlog is empty and no job is
\* 'processing'; no step of it touches a job, and the job in flight when it
\* began is finalized by its own report before the disconnect; the shutdown
\* runs to its end.
C34_ShutdownOrder ==
    /\ []StepsInOrder
    /\ [][/\ isShuttingDown => isShuttingDown'
          /\ shutdownLog' # shutdownLog =>
                 /\ UNCHANGED <<jobs, queue, currentJob>>
                 /\ shutdownLog'[Len(shutdownLog')] = "drain" => ~monRunning'
                 /\ shutdownLog'[Len(shutdownLog')] = "disconnect" =>
                        /\ Len(queue) = 0
                        /\ ProcessingJobs = {}
                        /\ inFlightAtShutdown # NoJob => Finalized(inFlightAtShutdown)]_vars
    /\ isShuttingDown ~> shutdownPc = "exited"

\* The shutdown began with a job in flight and further jobs waiting, and has
\* reached the disconnect.
C34_Witness ==
    /\ shutdownPc = "awaitDisconnect"
    /\ inFlightAtShutdown # NoJob
    /\ Len(jobs) > inFlightAtShutdown
    /\ \A j \in JobIds : jobs[j].status = "completed"

\* C35: handleMessage emits printJob exactly for a JSON object with a
\* non-empty template; the job's copies is a positive integer, 1 when the
\* message's copies is absent, zero or not a number; its data holds neither
\* template nor copies; text that is not JSON emits no printJob and leads
\* to an error record.
C35_HandleMessage ==
    payload # NoMessage =>
        /\ printJob.present <=> (payload.kind = "object" /\ Truthy(payload.template))
        /\ printJob.present =>
               /\ IsPositiveInteger(printJob.copies)
               /\ payload.copies \in {NoCopies, Num(0), Text} => printJob.copies = Num(1)
               /\ printJob.data \cap {"template", "copies"} = {}
        /\ payload.kind = "invalid" => ~printJob.present /\ errorRecord

\* C36: isPrinting is true only while a print's device write is in
\* progress; once print() has settled, with a result or with an error of any
\* of its checks, it is false; and a status read made while it is true
\* returns the cached status, leaves the printer's record of the device as it
\* is whatever the device's condition, and emits nothing.
C36_PrintingFlag ==
    /\ [](isPrinting => print.pc = "writing")
    /\ [][/\ (print'.pc \in {"resolved", "rejected"} /\ print'.pc # print.pc) =>
                 ~isPrinting'
          /\ (isPrinting /\ pcall' = "getStatus" /\ UNCHANGED <<qvars, print>>) =>
                 /\ pret'.status = lastStatus
                 /\ pEmitted' = <<>>
                 /\ UNCHANGED <<deviceAvailable, lastStatus, isPrinting>>]_vars

\* C36, amended: as C36, but a status read made while isPrinting is true
\* returns the cached status only when the device is marked available; when
\* it is marked unavailable the read returns ERROR, still leaving the record
\* of the device as it is and emitting nothing.
C36_PrintingFlagAmended ==
    /\ [](isPrinting => print.pc = "writing")
    /\ [][/\ (print'.pc \in {"resolved", "rejected"} /\ print'.pc # print.pc) =>
                 ~isPrinting'
          /\ (isPrinting /\ pcall' = "getStatus" /\ UNCHANGED <<qvars, print>>) =>
                 /\ pret'.status = IF deviceAvailable THEN lastStatus ELSE ERROR
                 /\ pEmitted' = <<>>
                 /\ UNCHANGED <<deviceAvailable, lastStatus, isPrinting>>]_vars

\* The status is read while a print is writing and the device has been
\* unplugged: a read of the device would fail.
C36_Witness ==
    /\ isPrinting
    /\ print.pc = "writing"
    /\ pcall = "getStatus"
    /\ ~devAccessible
    /\ deviceAvailable
    /\ pret.status = READY

\* C37: the counter and the connected flag change by the client's events
\* only; a connect event resets the reconnect counter to 0 and a reconnect
\* event adds one to it; the reconnect event that brings it to
\* maxReconnectAttempts ends the client and emits an error, and no earlier
\* one does; connected is false after an error, offline or close event and
\* becomes true by a connect event only.
C37_ReconnectCounter ==
    [][/\ UNCHANGED qvars \/ UNCHANGED <<connected, kvars>>
       /\ (UNCHANGED qvars /\ mqttEvent' = "connect") =>
              (reconnectAttempts' = 0 /\ connected')
       /\ (UNCHANGED qvars /\ mqttEvent' = "reconnect") =>
              /\ reconnectAttempts' = reconnectAttempts + 1
              /\ reconnectAttempts' >= maxReconnectAttempts =>
                     (clientEnded' /\ mqttEmitted' = <<"error">>)
              /\ reconnectAttempts' < maxReconnectAttempts =>
                     (clientEnded' = clientEnded /\ mqttEmitted' = <<>>)
       /\ (UNCHANGED qvars /\ mqttEvent' \in {"error", "offline", "close"}) =>
              ~connected'
       /\ (connected' /\ ~connected) => mqttEvent' = "connect"
       /\ mqttEvent' # "reconnect" => clientEnded' = clientEnded]_vars

\* Ten reconnect events without a connect in between have ended the client,
\* after outcome messages had been published.
C37_Witness ==
    /\ published # <<>>
    /\ mqttEvent = "reconnect"
    /\ reconnectAttempts = maxReconnectAttempts
    /\ clientEnded
    /\ mqttEmitted = <<"error">>

\* C38: while a pulse runs on an available LED, every tick of its interval
\* switches the LED between the pulse's color and off and leaves the pulse
\* running: pulsing stays true until a caller invokes setColor, pulse or
\* stopPulse.
C38_PulseKeepsAlternating ==
    [][(ledOp' = "tick" /\ ledAvailable) =>
           /\ pulseInterval'
           /\ currentColor' = IF isOn THEN Off ELSE scaled(pulseColor)
           /\ isOn' = ~isOn]_vars

====
